---- MODULE Spec2Model ----
(***************************************************************************)
(* The azurerm_compute execution module of saltext-azurerm: seventeen      *)
(* adapter functions around the Azure compute SDK client.  One behaviour   *)
(* of the model is one invocation of one exposed function: the function's  *)
(* statements are the actions, the collaborators (client factory, SDK      *)
(* operations, pollers, resource-group lookup, object-model builder) are   *)
(* the environment, whose answers (a value or a raised exception) are      *)
(* chosen with \E.  Every collaborator call is appended to the trace       *)
(* `calls`.                                                                *)
(***************************************************************************)
EXTENDS Naturals, Sequences, FiniteSets, TLC

\* ------------------------------------------------------------------ bounds
MaxItems == 2      \* longest paged sequence a listing call delivers
MaxVMs == 2        \* longest virtual_machines list given to create_or_update

\* ------------------------------------------------------------------ values
None == "None"
Msgs == {"not found", "bad request"}
Locations == {"eastus", "westus"}
Names == {"a", "b"}

\* The exposed functions.
CreateFn == "availability_set_create_or_update"
GetFns == {"availability_set_get", "virtual_machine_get"}
FlagFns == {"availability_set_delete", "virtual_machine_generalize"}
ListFns == {"availability_sets_list", "availability_sets_list_available_sizes",
            "virtual_machines_list", "virtual_machines_list_all",
            "virtual_machines_list_available_sizes"}
LroFns == {"virtual_machine_capture", "virtual_machine_convert_to_managed_disks",
           "virtual_machine_deallocate", "virtual_machine_power_off",
           "virtual_machine_restart", "virtual_machine_start",
           "virtual_machine_redeploy"}
Functions == {CreateFn} \cup GetFns \cup FlagFns \cup ListFns \cup LroFns

\* The SDK operation each function calls on the compute client.
SdkOp(f) ==
    CASE f = "availability_set_create_or_update" -> "availability_sets.create_or_update"
      [] f = "availability_set_delete" -> "availability_sets.delete"
      [] f = "availability_set_get" -> "availability_sets.get"
      [] f = "availability_sets_list" -> "availability_sets.list"
      [] f = "availability_sets_list_available_sizes" -> "availability_sets.list_available_sizes"
      [] f = "virtual_machine_capture" -> "virtual_machines.begin_capture"
      [] f = "virtual_machine_get" -> "virtual_machines.get"
      [] f = "virtual_machine_convert_to_managed_disks" -> "virtual_machines.begin_convert_to_managed_disks"
      [] f = "virtual_machine_deallocate" -> "virtual_machines.begin_deallocate"
      [] f = "virtual_machine_generalize" -> "virtual_machines.generalize"
      [] f = "virtual_machines_list" -> "virtual_machines.list"
      [] f = "virtual_machines_list_all" -> "virtual_machines.list_all"
      [] f = "virtual_machines_list_available_sizes" -> "virtual_machines.list_available_sizes"
      [] f = "virtual_machine_power_off" -> "virtual_machines.begin_power_off"
      [] f = "virtual_machine_restart" -> "virtual_machines.begin_restart"
      [] f = "virtual_machine_start" -> "virtual_machines.begin_start"
      [] f = "virtual_machine_redeploy" -> "virtual_machines.begin_redeploy"

\* ------------------------------------------------------------- exceptions
\* The exception classes of azure.core.exceptions the module imports, and
\* the one the client factory raises on a configuration it cannot use.
HttpResponseError == "HttpResponseError"
ResourceNotFoundError == "ResourceNotFoundError"
SerializationError == "SerializationError"
TypeError == "TypeError"
SaltInvocationError == "SaltInvocationError"

\* isinstance(exc, cls) for an exception of class e: ResourceNotFoundError
\* derives from HttpResponseError, the other classes are unrelated.
IsInstance(e, cls) ==
    \/ e = cls
    \/ e = ResourceNotFoundError /\ cls = HttpResponseError

\* A handler that names ResourceNotFoundError alone.
CaughtNotFoundOnly(f) == {ResourceNotFoundError}

\* The classes named in the except clause that logs and returns the error.
Caught(f) ==
    IF f \in {"availability_set_get", "availability_sets_list_available_sizes"}
      THEN {ResourceNotFoundError, HttpResponseError}
      ELSE {HttpResponseError}

Catches(f, e) == \E cls \in Caught(f) : IsInstance(e, cls)

\* The first argument the function gives log_cloud_error.
LogClient(f) ==
    IF f = "virtual_machine_convert_to_managed_disks" THEN "comput" ELSE "compute"

\* What an SDK operation of the function may raise.
SdkRaises(f) ==
    IF f = CreateFn
      THEN {HttpResponseError, ResourceNotFoundError, SerializationError}
      ELSE {HttpResponseError, ResourceNotFoundError}

Exc(type, msg) == [type |-> type, msg |-> msg]
NoExc == Exc(None, None)
\* An exception together with the call that raised it.
RaisedAt(op, type, msg) == [type |-> type, msg |-> msg, at |-> op]
NotRaised == RaisedAt(None, None, None)

\* ---------------------------------------------------------------- mappings
\* An SDK model object: its attributes, None where the attribute is unset.
ObjKeys == {"id", "name", "location"}
SdkObject(n, loc) == [k \in ObjKeys |->
    IF k = "id" THEN "/subscriptions/s/" \o n ELSE IF k = "name" THEN n ELSE loc]
SdkObjects == {SdkObject(n, loc) : n \in Names, loc \in Locations \cup {None}}
NoObject == [k \in ObjKeys |-> None]

\* obj.as_dict(): the attributes that are set, as a plain mapping.
as_dict(o) == [k \in {x \in DOMAIN o : o[x] # None} |-> o[k]]

EmptyDict == [k \in {} |-> None]
\* d.setdefault(k, v): a key already present keeps its value.
DictSetKeepsFirst(d, k, v) ==
    [x \in DOMAIN d \cup {k} |-> IF x \in DOMAIN d THEN d[x] ELSE v]

\* d[k] = v on a dict.
DictSet(d, k, v) == [x \in DOMAIN d \cup {k} |-> IF x = k THEN v ELSE d[x]]

\* {"error": msg}
ErrorMapping(msg) == [error |-> msg]
\* "The object model could not be built. ({})".format(detail)
BuiltMessage(detail) == "The object model could not be built. (" \o detail \o ")"
\* The "built" text copied into the second handler.
ParsedMessageCopied(detail) == "The object model could not be built. (" \o detail \o ")"
\* "The object model could not be parsed. ({})".format(detail)
ParsedMessage(detail) == "The object model could not be parsed. (" \o detail \o ")"

\* A Python value held by `result`: unset, a boolean or a dict.
Unset == [kind |-> "unset", val |-> None]
Bool(b) == [kind |-> "bool", val |-> b]
Dict(d) == [kind |-> "dict", val |-> d]

\* The response returned as it is, unset attributes included.
ReshapeRaw(o) == Dict(o)

\* result = response.as_dict()
Reshape(o) == Dict(as_dict(o))

\* One entry of the call trace: the collaborator called, its argument, and
\* the exposed function whose body made the call.
Call(op, arg, by) == [op |-> op, arg |-> arg, by |-> by]

\* Sequences over S of length at most n.
SeqsUpTo(S, n) == UNION {[1..k -> S] : k \in 0..n}

\* paged_object_to_list(paged): every item of the paged sequence, in
\* iteration order, as its dictionary form.
paged_object_to_list(objs) == [i \in 1..Len(objs) |-> as_dict(objs[i])]

\* ------------------------------------------------------------------- state
VARIABLES
    fn,        \* the exposed function being invoked, None before the call
    pc,        \* the statement the invocation is at
    args,      \* the keyword arguments the function was called with
    kwargs,    \* the keyword arguments the function reads and rewrites
    calls,     \* the collaborator calls made so far, in order
    result,    \* the local `result`
    exc,       \* the exception propagating out of the function, if any
    raised,    \* the exception the function's own SDK call raised, if any
    resp,      \* the object the SDK call (or the poller's result()) returned
    paged,     \* the paged sequence of a listing call and how far it got
    items,     \* the flattened list a listing function iterates over
    idx,       \* the loop index (listing loop, VM-name loop)
    vm_list,   \* create_or_update: the {"id": ...} objects collected so far
    lookups,   \* create_or_update: what each VM lookup returned, in order
    rg_props,  \* create_or_update: what the resource-group lookup returned
    setmodel   \* create_or_update: the kwargs the object model was built from

vars == <<fn, pc, args, kwargs, calls, result, exc, raised, resp, paged, items, idx,
          vm_list, lookups, rg_props, setmodel>>

\* kwargs["virtual_machines"]: absent, or a list.
Absent == [kind |-> "absent", val |-> <<>>]
List(s) == [kind |-> "list", val |-> s]
NoKwargs == [location |-> None, virtual_machines |-> Absent]
NoPaged == [objs |-> <<>>, fetched |-> 0, failed |-> FALSE]

Init ==
    /\ fn = None
    /\ pc = "idle"
    /\ args = NoKwargs
    /\ kwargs = NoKwargs
    /\ calls = <<>>
    /\ result = Unset
    /\ exc = NoExc
    /\ raised = NotRaised
    /\ resp = NoObject
    /\ paged = NoPaged
    /\ items = <<>>
    /\ idx = 1
    /\ vm_list = <<>>
    /\ lookups = <<>>
    /\ rg_props = EmptyDict
    /\ setmodel = NoKwargs

\* The flag functions starting from result = True.
InitialResultTrue(f) ==
    IF f \in FlagFns THEN Bool(TRUE)
    ELSE IF f \in ListFns THEN Dict(EmptyDict)
    ELSE Unset

\* The value `result` is bound to before the client is requested.
InitialResult(f) ==
    IF f \in FlagFns THEN Bool(FALSE)
    ELSE IF f \in ListFns THEN Dict(EmptyDict)
    ELSE Unset

\* A body that starts at its SDK call, with no client requested.
FirstPcSkipsClient(f) ==
    IF f = CreateFn THEN "location"
    ELSE IF f \in GetFns THEN "sdk_get"
    ELSE IF f \in FlagFns THEN "sdk_flag"
    ELSE IF f \in ListFns THEN "sdk_list"
    ELSE "lro_begin"

\* The first statement of the function body.
FirstPc(f) == IF f = CreateFn THEN "location" ELSE "get_client"

\* The statement that follows compconn = get_client("compute", **kwargs).
AfterClient(f) ==
    IF f = CreateFn THEN "vms"
    ELSE IF f \in GetFns THEN "sdk_get"
    ELSE IF f \in FlagFns THEN "sdk_flag"
    ELSE IF f \in ListFns THEN "sdk_list"
    ELSE "lro_begin"

\* The host runtime calls exposed function f with its keyword arguments.
Invoke(f) ==
    /\ pc = "idle"
    /\ fn' = f
    /\ \E loc \in Locations \cup {None},
          vms \in {Absent} \cup {List(s) : s \in SeqsUpTo(Names, MaxVMs)} :
          kwargs' = IF f = CreateFn
                      THEN [location |-> loc, virtual_machines |-> vms]
                      ELSE NoKwargs
    /\ args' = kwargs'
    /\ result' = InitialResult(f)
    /\ pc' = FirstPc(f)
    /\ UNCHANGED <<calls, exc, raised, resp, paged, items, idx, vm_list, lookups,
                   rg_props, setmodel>>

\* What get_client raises on a configuration it cannot use.
GetClientRaises == {SaltInvocationError}

\* compconn = saltext.azurerm.utils.azurerm.get_client("compute", **kwargs):
\* outside every try block, so what the factory raises leaves the function.
GetClient ==
    /\ pc = "get_client"
    /\ calls' = Append(calls, Call("get_client", "compute", fn))
    /\ \/ /\ pc' = AfterClient(fn)
          /\ exc' = exc
       \/ \E e \in GetClientRaises, m \in Msgs :
          /\ exc' = Exc(e, m)
          /\ pc' = "raised"
    /\ UNCHANGED <<fn, args, kwargs, result, raised, resp, paged, items, idx, vm_list,
                   lookups, rg_props, setmodel>>

\* A handler that binds the error mapping in the flag functions too.
HandlerResultAlwaysError(f, old, m) == Dict(ErrorMapping(m))

\* A listing handler that logs and leaves the mapping built so far.
HandlerResultListingKeeps(f, old, m) ==
    IF f \in FlagFns \cup ListFns THEN old ELSE Dict(ErrorMapping(m))

\* A handler that logs and leaves `result` as it was.
HandlerResultKeepsOld(f, old, m) == old

\* What the logging except clause binds `result` to.
HandlerResult(f, old, m) ==
    IF f \in FlagFns THEN old ELSE Dict(ErrorMapping(m))

\* A handler that goes back to the statement after get_client.
AfterHandlerRetries(f) == AfterClient(f)

\* The statement the except clause falls through to: return result.
AfterHandler(f) == "return"

\* The call `op` made inside the try block raises e with message m: the
\* except clause logs it and sets the error result when it names a class of
\* e, otherwise the exception leaves the function.
Except(op, e, m) ==
    /\ raised' = RaisedAt(op, e, m)
    /\ IF Catches(fn, e)
         THEN /\ calls' = calls \o <<Call(op, "", fn),
                                     Call("log_cloud_error", <<LogClient(fn), m>>, fn)>>
              /\ result' = HandlerResult(fn, result, m)
              /\ pc' = AfterHandler(fn)
              /\ exc' = exc
         ELSE /\ calls' = Append(calls, Call(op, "", fn))
              /\ result' = result
              /\ pc' = "raised"
              /\ exc' = Exc(e, m)

\* availability_set_get, virtual_machine_get: the SDK get and as_dict().
SdkGet ==
    /\ pc = "sdk_get"
    /\ \/ \E o \in SdkObjects :
          /\ calls' = Append(calls, Call(SdkOp(fn), "", fn))
          /\ resp' = o
          /\ result' = Reshape(o)
          /\ pc' = "return"
          /\ UNCHANGED <<exc, raised>>
       \/ \E e \in SdkRaises(fn), m \in Msgs :
          /\ Except(SdkOp(fn), e, m)
          /\ resp' = resp
    /\ UNCHANGED <<fn, args, kwargs, paged, items, idx, vm_list, lookups, rg_props, setmodel>>

\* availability_set_delete, virtual_machine_generalize: the SDK call, then
\* result = True.
SdkFlag ==
    /\ pc = "sdk_flag"
    /\ \/ /\ calls' = Append(calls, Call(SdkOp(fn), "", fn))
          /\ result' = Bool(TRUE)
          /\ pc' = "return"
          /\ UNCHANGED <<exc, raised>>
       \/ \E e \in SdkRaises(fn), m \in Msgs : Except(SdkOp(fn), e, m)
    /\ UNCHANGED <<fn, args, kwargs, resp, paged, items, idx, vm_list, lookups, rg_props,
                   setmodel>>

\* The poller's result read without waiting.
LroNextSkipsWait(p) == "lro_result"

\* The statement after the long-running operation's statement p: begin_*,
\* then vm.wait(), then vm.result().
LroNext(p) == IF p = "lro_begin" THEN "lro_wait" ELSE "lro_result"

\* The long-running operations: vm = compconn.virtual_machines.begin_*(...)
LroBegin ==
    /\ pc = "lro_begin"
    /\ \/ /\ calls' = Append(calls, Call(SdkOp(fn), "", fn))
          /\ pc' = LroNext(pc)
          /\ UNCHANGED <<result, exc, raised>>
       \/ \E e \in SdkRaises(fn), m \in Msgs : Except(SdkOp(fn), e, m)
    /\ UNCHANGED <<fn, args, kwargs, resp, paged, items, idx, vm_list, lookups, rg_props,
                   setmodel>>

\* vm.wait()
LroWait ==
    /\ pc = "lro_wait"
    /\ \/ /\ calls' = Append(calls, Call("wait", "", fn))
          /\ pc' = LroNext(pc)
          /\ UNCHANGED <<result, exc, raised>>
       \/ \E e \in SdkRaises(fn), m \in Msgs : Except("wait", e, m)
    /\ UNCHANGED <<fn, args, kwargs, resp, paged, items, idx, vm_list, lookups, rg_props,
                   setmodel>>

\* vm_result = vm.result(); result = vm_result.as_dict()
LroResult ==
    /\ pc = "lro_result"
    /\ \/ \E o \in SdkObjects :
          /\ calls' = Append(calls, Call("result", "", fn))
          /\ resp' = o
          /\ result' = Reshape(o)
          /\ pc' = "return"
          /\ UNCHANGED <<exc, raised>>
       \/ \E e \in SdkRaises(fn), m \in Msgs :
          /\ Except("result", e, m)
          /\ resp' = resp
    /\ UNCHANGED <<fn, args, kwargs, paged, items, idx, vm_list, lookups, rg_props, setmodel>>

\* The listing functions: the SDK list call and paged_object_to_list over
\* the sequence it returns.  The sequence is fetched lazily, so the SDK may
\* raise at the call or after any number of items were delivered.
SdkList ==
    /\ pc = "sdk_list"
    /\ \E objs \in SeqsUpTo(SdkObjects, MaxItems) :
       \/ /\ calls' = calls \o <<Call(SdkOp(fn), "", fn),
                                 Call("paged_object_to_list", "", fn)>>
          /\ paged' = [objs |-> objs, fetched |-> Len(objs), failed |-> FALSE]
          /\ items' = paged_object_to_list(objs)
          /\ idx' = 1
          /\ pc' = "list_loop"
          /\ UNCHANGED <<result, exc, raised>>
       \/ \E k \in 0..Len(objs), e \in SdkRaises(fn), m \in Msgs :
          /\ paged' = [objs |-> objs, fetched |-> k, failed |-> TRUE]
          /\ Except(SdkOp(fn), e, m)
          /\ UNCHANGED <<items, idx>>
    /\ UNCHANGED <<fn, args, kwargs, resp, vm_list, lookups, rg_props, setmodel>>

\* Items keyed by their resource id.
ItemKeyId(item) == item["id"]

\* The key a listed item is stored under: item["name"].
ItemKey(item) == item["name"]

\* for item in items: result[item["name"]] = item
ListLoop ==
    /\ pc = "list_loop"
    /\ IF idx <= Len(items)
         THEN /\ result' = Dict(DictSet(result.val, ItemKey(items[idx]), items[idx]))
              /\ idx' = idx + 1
              /\ pc' = pc
         ELSE /\ pc' = "return"
              /\ UNCHANGED <<result, idx>>
    /\ UNCHANGED <<fn, args, kwargs, calls, exc, raised, resp, paged, items, vm_list,
                   lookups, rg_props, setmodel>>

\* What azurerm_resource.resource_group_get returns: the group's properties,
\* or an error mapping.
resource_group_get_returns ==
    {as_dict(SdkObject("group", loc)) : loc \in Locations}
        \cup {ErrorMapping(m) : m \in Msgs}

\* A lookup made whether or not a location was given.
NeedsLocationAlways(kw) == TRUE

\* "location" not in kwargs
NeedsLocation(kw) == kw.location = None

\* availability_set_create_or_update: if "location" not in kwargs, the
\* resource group is looked up and its location adopted; an error mapping
\* from the lookup ends the call with False.
CreateLocation ==
    /\ pc = "location"
    /\ IF NeedsLocation(kwargs)
         THEN \E props \in resource_group_get_returns :
                 /\ rg_props' = props
                 /\ IF "error" \in DOMAIN props
                      THEN /\ calls' = calls \o
                                  <<Call("azurerm_resource.resource_group_get", "", fn),
                                    Call("log.error", "", fn)>>
                           /\ result' = Bool(FALSE)
                           /\ pc' = "return"
                           /\ kwargs' = kwargs
                      ELSE /\ calls' = Append(calls,
                                  Call("azurerm_resource.resource_group_get", "", fn))
                           /\ kwargs' = [kwargs EXCEPT !.location = props["location"]]
                           /\ pc' = "get_client"
                           /\ result' = result
         ELSE /\ pc' = "get_client"
              /\ UNCHANGED <<calls, rg_props, kwargs, result>>
    /\ UNCHANGED <<fn, args, exc, raised, resp, paged, items, idx, vm_list, lookups,
                   setmodel>>

\* What the nested virtual_machine_get returns when its SDK get raises e
\* with message m (its except clause names HttpResponseError).
LookupError(m) == ErrorMapping(m)

\* vm_list assigned, not appended to.
VmListLastOnly(list, vm_instance) ==
    IF "error" \notin DOMAIN vm_instance
      THEN <<[id |-> vm_instance["id"]]>>
      ELSE list

\* vm_list after one lookup: the {"id": ...} object is appended when the
\* lookup's mapping has no "error" key.
VmListAfter(list, vm_instance) ==
    IF "error" \notin DOMAIN vm_instance
      THEN Append(list, [id |-> vm_instance["id"]])
      ELSE list

\* The VM-name loop of create_or_update.  Each name is looked up with
\* virtual_machine_get, which requests a client of its own, calls the SDK get
\* and turns an HttpResponseError into an error mapping.
CreateVmLoop ==
    /\ pc = "vms"
    /\ LET vms == kwargs.virtual_machines IN
       IF vms.kind # "list"
         THEN /\ pc' = "build"
              /\ UNCHANGED <<kwargs, calls, exc, idx, vm_list, lookups>>
         ELSE IF idx <= Len(vms.val)
           THEN LET inner == "virtual_machine_get"
                    c1 == Append(calls, Call("get_client", "compute", inner))
                    c2 == Append(c1, Call(SdkOp(inner), vms.val[idx], inner))
                IN
                \/ \E e \in GetClientRaises, m \in Msgs :
                   /\ calls' = c1
                   /\ exc' = Exc(e, m)
                   /\ pc' = "raised"
                   /\ UNCHANGED <<kwargs, idx, vm_list, lookups>>
                \/ \E o \in SdkObjects :
                   /\ calls' = c2
                   /\ lookups' = Append(lookups, as_dict(o))
                   /\ vm_list' = VmListAfter(vm_list, as_dict(o))
                   /\ idx' = idx + 1
                   /\ pc' = pc
                   /\ UNCHANGED <<kwargs, exc>>
                \/ \E e \in SdkRaises(inner), m \in Msgs :
                   IF Catches(inner, e)
                     THEN /\ calls' = Append(c2,
                                 Call("log_cloud_error", <<LogClient(inner), m>>, inner))
                          /\ lookups' = Append(lookups, LookupError(m))
                          /\ vm_list' = VmListAfter(vm_list, LookupError(m))
                          /\ idx' = idx + 1
                          /\ pc' = pc
                          /\ UNCHANGED <<kwargs, exc>>
                     ELSE /\ calls' = c2
                          /\ exc' = Exc(e, m)
                          /\ pc' = "raised"
                          /\ UNCHANGED <<kwargs, idx, vm_list, lookups>>
           ELSE /\ kwargs' = [kwargs EXCEPT !.virtual_machines = List(vm_list)]
                /\ pc' = "build"
                /\ UNCHANGED <<calls, exc, idx, vm_list, lookups>>
    /\ UNCHANGED <<fn, args, result, raised, resp, paged, items, rg_props, setmodel>>

\* setmodel = create_object_model("compute", "AvailabilitySet", **kwargs);
\* a TypeError is returned as the "could not be built" error mapping.
CreateBuildModel ==
    /\ pc = "build"
    /\ calls' = Append(calls,
           Call("create_object_model", <<"AvailabilitySet", kwargs.location>>, fn))
    /\ \/ /\ setmodel' = kwargs
          /\ pc' = "sdk_create"
          /\ UNCHANGED <<result, raised>>
       \/ \E m \in Msgs :
          /\ raised' = RaisedAt("create_object_model", TypeError, m)
          /\ result' = Dict(ErrorMapping(BuiltMessage(m)))
          /\ pc' = "return"
          /\ setmodel' = setmodel
    /\ UNCHANGED <<fn, args, kwargs, exc, resp, paged, items, idx, vm_list, lookups,
                   rg_props>>

\* What create_or_update's second except clause returns.
ParsedError(m) == Dict(ErrorMapping(ParsedMessage(m)))

\* av_set = compconn.availability_sets.create_or_update(...); as_dict();
\* HttpResponseError is logged and returned, SerializationError is returned
\* as the "could not be parsed" error mapping.
CreateSdk ==
    /\ pc = "sdk_create"
    /\ \/ \E o \in SdkObjects :
          /\ calls' = Append(calls, Call(SdkOp(fn), "", fn))
          /\ resp' = o
          /\ result' = Reshape(o)
          /\ pc' = "return"
          /\ UNCHANGED <<exc, raised>>
       \/ \E e \in SdkRaises(fn), m \in Msgs :
          /\ resp' = resp
          /\ IF ~Catches(fn, e) /\ IsInstance(e, SerializationError)
               THEN /\ raised' = RaisedAt(SdkOp(fn), e, m)
                    /\ calls' = Append(calls, Call(SdkOp(fn), "", fn))
                    /\ result' = ParsedError(m)
                    /\ pc' = "return"
                    /\ exc' = exc
               ELSE Except(SdkOp(fn), e, m)
    /\ UNCHANGED <<fn, args, kwargs, paged, items, idx, vm_list, lookups, rg_props,
                   setmodel>>

\* return result
Return ==
    /\ pc = "return"
    /\ pc' = "returned"
    /\ UNCHANGED <<fn, args, kwargs, calls, result, exc, raised, resp, paged, items, idx,
                   vm_list, lookups, rg_props, setmodel>>

Next ==
    \/ \E f \in Functions : Invoke(f)
    \/ GetClient
    \/ SdkGet
    \/ SdkFlag
    \/ LroBegin
    \/ LroWait
    \/ LroResult
    \/ SdkList
    \/ ListLoop
    \/ CreateLocation
    \/ CreateVmLoop
    \/ CreateBuildModel
    \/ CreateSdk
    \/ Return

Spec == Init /\ [][Next]_vars

\* ------------------------------------------------------------ properties
\* The exception types the functions document for their SDK call.
Documented == {ResourceNotFoundError, HttpResponseError}
Returned == pc = "returned"
\* `result` is the boolean b.
IsBool(r, b) == r.kind = "bool" /\ r.val = b
\* `result` is the mapping {"error": msg}.
IsError(r, msg) == r.kind = "dict" /\ DOMAIN r.val = {"error"} /\ r.val["error"] = msg
\* The calls with operation `op` made by the body of function `by`.
CallsOf(op, by) == SelectSeq(calls, LAMBDA c : c.op = op /\ c.by = by)
\* The function's own SDK operation was invoked.
SdkCalled == Len(CallsOf(SdkOp(fn), fn)) > 0

\* C1 as stated: every exposed function whose SDK call raises
\* ResourceNotFoundError or HttpResponseError returns {"error": str(exc)}.
C1_AllReturnErrorMapping ==
    (Returned /\ raised.type \in Documented) => IsError(result, raised.msg)

\* C1 amended: when the SDK call raises ResourceNotFoundError or
\* HttpResponseError the exception is handled and the function returns
\* {"error": str(exc)}, except availability_set_delete and
\* virtual_machine_generalize, which return False.
C1_ErrorMappingOrFalse ==
    (raised.type \in Documented) =>
        /\ pc \in {"return", "returned"}
        /\ IF fn \in FlagFns
             THEN IsBool(result, FALSE)
             ELSE IsError(result, raised.msg)

\* A function that names only HttpResponseError has returned the error
\* mapping of a ResourceNotFoundError.
C1_Witness ==
    /\ Returned
    /\ fn = "virtual_machines_list"
    /\ raised.type = ResourceNotFoundError
    /\ IsError(result, "not found")

\* C2: when the SDK call raises a documented exception the function calls
\* log_cloud_error exactly once, with "compute" and the exception message;
\* on a success path it does not call it.
C2_LoggedOnceAsCompute ==
    Returned =>
        IF raised.type \in Documented
          THEN CallsOf("log_cloud_error", fn) =
                   <<Call("log_cloud_error", <<"compute", raised.msg>>, fn)>>
          ELSE CallsOf("log_cloud_error", fn) = <<>>

\* C3 as stated: no invocation ends with an exception leaving the function.
C3_NothingPropagates == pc # "raised"

\* `result` is an error value: an error mapping or False.
IsErrorValue(r) ==
    \/ IsBool(r, FALSE)
    \/ r.kind = "dict" /\ "error" \in DOMAIN r.val

\* C3 amended: a failure the function has a handler for (HttpResponseError,
\* ResourceNotFoundError included, from the SDK operation, wait or result; a
\* TypeError from create_object_model; a SerializationError from
\* create_or_update; an error mapping from the resource-group lookup) ends
\* in a returned error value; a failed VM lookup is dropped and the call goes
\* on.  Only an exception raised by get_client leaves the function.
C3_HandledFailuresReturnErrorValue ==
    /\ (raised.type # None) =>
           pc \in {"return", "returned"} /\ IsErrorValue(result)
    /\ ("error" \in DOMAIN rg_props) =>
           pc \in {"return", "returned"} /\ IsBool(result, FALSE)
    /\ (pc = "raised") =>
           /\ exc.type = SaltInvocationError
           /\ calls[Len(calls)].op = "get_client"

\* create_or_update has returned an error value after VM lookups failed and
\* its own SDK call raised.
C3_Witness ==
    /\ Returned
    /\ fn = CreateFn
    /\ raised.type = HttpResponseError
    /\ Len(lookups) > 0
    /\ \A i \in 1..Len(lookups) : "error" \in DOMAIN lookups[i]
    /\ IsErrorValue(result)

\* A success path: the function's SDK call was made, nothing raised, and the
\* function has returned.
Success == Returned /\ SdkCalled /\ raised.type = None

\* C4 as stated: on every success path the returned value is the mapping
\* as_dict() of the SDK response.
C4_SuccessReturnsAsDict ==
    Success => (result.kind = "dict" /\ result.val = as_dict(resp))

\* C4 amended: on a success path create_or_update, the two get functions and
\* the seven long-running operations return as_dict() of the response (of
\* the poller's final result); availability_set_delete and
\* virtual_machine_generalize return True; a listing function returns a
\* mapping whose values are the dictionary forms of the listed items.
C4_SuccessValue ==
    Success =>
        IF fn \in FlagFns THEN IsBool(result, TRUE)
        ELSE IF fn \in ListFns
          THEN /\ result.kind = "dict"
               /\ \A k \in DOMAIN result.val :
                    \E i \in 1..Len(paged.objs) : result.val[k] = as_dict(paged.objs[i])
        ELSE /\ result.kind = "dict"
             /\ resp \in SdkObjects
             /\ result.val = [k \in {x \in ObjKeys : resp[x] # None} |-> resp[k]]

\* A long-running operation has returned the dictionary form of a result
\* whose location is unset.
C4_Witness ==
    /\ Success
    /\ fn = "virtual_machine_capture"
    /\ resp["location"] = None
    /\ DOMAIN result.val = {"id", "name"}

\* The function's own calls of `op`, counted.
Count(op) == Len(CallsOf(op, fn))

\* C5: create_or_update called without location queries the resource group
\* exactly once and gives the group's location to the object model; when the
\* lookup returns an error mapping the function returns False and
\* availability_sets.create_or_update is never called; with a location
\* supplied the resource group is not queried.
C5_LocationFromResourceGroup ==
    (fn = CreateFn) =>
        /\ (args.location # None) =>
               Count("azurerm_resource.resource_group_get") = 0
        /\ (args.location = None) =>
               Count("azurerm_resource.resource_group_get") =
                   IF pc = "location" THEN 0 ELSE 1
        /\ ("error" \in DOMAIN rg_props) =>
               /\ ~SdkCalled
               /\ pc \in {"return", "returned"}
               /\ IsBool(result, FALSE)
        /\ \A i \in 1..Len(calls) :
               (calls[i].op = "create_object_model" /\ args.location = None) =>
                   /\ "location" \in DOMAIN rg_props
                   /\ calls[i].arg[2] = rg_props["location"]

\* Called without location, the function has built the object model with
\* the location of the resource group and called the SDK.
C5_Witness ==
    /\ fn = CreateFn
    /\ Returned
    /\ args.location = None
    /\ Count("azurerm_resource.resource_group_get") = 1
    /\ setmodel.location = "westus"
    /\ SdkCalled

\* The {"id": ...} objects of the lookups that returned no "error" key, in
\* the order of the lookups.
RECURSIVE Resolved(_)
Resolved(ls) ==
    IF Len(ls) = 0 THEN <<>>
    ELSE IF "error" \in DOMAIN Head(ls)
      THEN Resolved(Tail(ls))
      ELSE <<[id |-> Head(ls)["id"]]>> \o Resolved(Tail(ls))

\* The names virtual_machine_get was called with, in call order.
LookupNames ==
    LET gets == CallsOf("virtual_machines.get", "virtual_machine_get")
    IN  [i \in 1..Len(gets) |-> gets[i].arg]

\* C6: given a list of VM names, create_or_update looks each name up once,
\* in list order, and replaces the list by the {"id": ...} objects of the
\* lookups that returned no "error" key, in the same order; failed lookups
\* are dropped and the call goes on, so the new list is no longer than the
\* given one.
C6_VmNamesResolved ==
    (fn = CreateFn /\ args.virtual_machines.kind = "list") =>
        LET names == args.virtual_machines.val IN
        /\ Len(LookupNames) <= Len(names)
        /\ LookupNames = SubSeq(names, 1, Len(LookupNames))
        /\ vm_list = Resolved(lookups)
        /\ (Count("create_object_model") > 0) =>
               /\ LookupNames = names
               /\ Len(lookups) = Len(names)
               /\ kwargs.virtual_machines.kind = "list"
               /\ kwargs.virtual_machines.val = Resolved(lookups)
               /\ Len(kwargs.virtual_machines.val) <= Len(names)
               /\ setmodel # NoKwargs => setmodel.virtual_machines.val = Resolved(lookups)

\* Two names were given, the first lookup failed, the second resolved, and
\* the object model was built from the one resolved id.
C6_Witness ==
    /\ fn = CreateFn
    /\ Returned
    /\ args.virtual_machines = List(<<"a", "b">>)
    /\ Len(lookups) = 2
    /\ "error" \in DOMAIN lookups[1]
    /\ "error" \notin DOMAIN lookups[2]
    /\ Len(setmodel.virtual_machines.val) = 1
    /\ SdkCalled

\* The poller calls the function has made, in order.
LroOps ==
    LET cs == SelectSeq(calls,
                  LAMBDA c : c.by = fn /\ c.op \in {SdkOp(fn), "wait", "result"})
    IN  [i \in 1..Len(cs) |-> cs[i].op]

\* `result` is a resource mapping: a dict without an "error" key.
IsResource(r) == r.kind = "dict" /\ "error" \notin DOMAIN r.val

\* C7: a long-running operation calls begin_*, then wait, then result, in
\* that order; a resource mapping is held or returned only after wait has
\* returned and result was read; when begin_* or wait raises
\* HttpResponseError, result is never read.
C7_BeginWaitResult ==
    (fn \in LroFns) =>
        /\ Len(LroOps) <= 3
        /\ LroOps = SubSeq(<<SdkOp(fn), "wait", "result">>, 1, Len(LroOps))
        /\ IsResource(result) =>
               /\ LroOps = <<SdkOp(fn), "wait", "result">>
               /\ raised.type = None
        /\ (raised.at \in {SdkOp(fn), "wait"}) =>
               /\ "result" \notin {LroOps[i] : i \in 1..Len(LroOps)}
               /\ ~IsResource(result)

\* A restart has returned its resource mapping after begin, wait and result.
C7_Witness ==
    /\ fn = "virtual_machine_restart"
    /\ Returned
    /\ IsResource(result)
    /\ LroOps = <<"virtual_machines.begin_restart", "wait", "result">>

\* C8: virtual_machine_generalize returns True when the SDK generalize call
\* raises nothing and False when it raises HttpResponseError; it never
\* returns a mapping.
C8_GeneralizeReturnsFlag ==
    (fn = "virtual_machine_generalize" /\ Returned) =>
        /\ result.kind = "bool"
        /\ (raised.type = None) => (SdkCalled /\ result.val = TRUE)
        /\ (raised.type # None) =>
               (IsInstance(raised.type, HttpResponseError) /\ result.val = FALSE)

\* generalize has returned False after the SDK call raised.
C8_Witness ==
    /\ fn = "virtual_machine_generalize"
    /\ Returned
    /\ raised.type = HttpResponseError
    /\ raised.at = "virtual_machines.generalize"
    /\ IsBool(result, FALSE)

\* C9: on success a listing function returns a mapping whose keys are
\* exactly the names of the items of the flattened paged sequence (every
\* item, in order, as its dictionary form) and whose value at each key is an
\* item with that name; an empty sequence gives the empty mapping.
C9_ListingKeyedByName ==
    (fn \in ListFns /\ Returned /\ raised.type = None) =>
        LET objs == paged.objs IN
        /\ result.kind = "dict"
        /\ Len(items) = Len(objs)
        /\ \A i \in 1..Len(objs) :
               items[i] = [k \in {x \in ObjKeys : objs[i][x] # None} |-> objs[i][k]]
        /\ DOMAIN result.val = {objs[i]["name"] : i \in 1..Len(objs)}
        /\ \A k \in DOMAIN result.val :
               \E i \in 1..Len(items) :
                   items[i]["name"] = k /\ result.val[k] = items[i]
        /\ (Len(objs) = 0) => (DOMAIN result.val = {})

\* A listing of two items with different names has returned two entries.
C9_Witness ==
    /\ fn = "availability_sets_list"
    /\ Returned
    /\ raised.type = None
    /\ Len(paged.objs) = 2
    /\ DOMAIN result.val = {"a", "b"}

\* C10: in create_or_update a TypeError while the request object is built is
\* returned as {"error": "The object model could not be built. (<detail>)"}
\* and create_or_update is then never called; a SerializationError from the
\* SDK call is returned as
\* {"error": "The object model could not be parsed. (<detail>)"}.
C10_ObjectModelErrors ==
    (fn = CreateFn) =>
        /\ (raised.type = TypeError) =>
               /\ ~SdkCalled
               /\ pc \in {"return", "returned"}
               /\ IsError(result,
                      "The object model could not be built. (" \o raised.msg \o ")")
        /\ (raised.type = SerializationError) =>
               /\ pc \in {"return", "returned"}
               /\ IsError(result,
                      "The object model could not be parsed. (" \o raised.msg \o ")")
               /\ Count("log_cloud_error") = 0

\* create_or_update has returned the "could not be built" mapping without
\* calling the SDK.
C10_Witness ==
    /\ fn = CreateFn
    /\ Returned
    /\ raised.type = TypeError
    /\ result.val["error"] = "The object model could not be built. (bad request)"
    /\ Count("availability_sets.create_or_update") = 0

\* The calls the function itself made, the logger's left out.
OwnCalls == SelectSeq(calls, LAMBDA c : c.by = fn /\ c.op # "log_cloud_error")

\* C11: no retries.  In one invocation the function's own SDK operation is
\* invoked at most once (each of wait and result too), also when it raises:
\* after a failure the raising call is the last call the function makes
\* before it returns.
C11_NoRetry ==
    (fn # None) =>
        /\ Count(SdkOp(fn)) <= 1
        /\ Count("wait") <= 1
        /\ Count("result") <= 1
        /\ (raised.type # None) =>
               /\ Count(raised.at) = 1
               /\ OwnCalls[Len(OwnCalls)].op = raised.at

\* A restart whose begin_restart raised has returned after that one call.
C11_Witness ==
    /\ fn = "virtual_machine_restart"
    /\ Returned
    /\ raised.at = "virtual_machines.begin_restart"
    /\ Count("virtual_machines.begin_restart") = 1
    /\ Count("wait") = 0

\* The invocation is over: the function returned or an exception left it.
Ended == pc \in {"returned", "raised"}

\* The positions in the trace of the function's own calls with an operation
\* in ops.
Positions(ops) == {i \in 1..Len(calls) : calls[i].by = fn /\ calls[i].op \in ops}

\* The function's own calls on the compute client and its poller.
SdkOps == {SdkOp(fn), "wait", "result"}

\* C12 as stated: in every invocation the function calls
\* get_client("compute") exactly once, and makes no SDK call before it.
C12_ClientExactlyOnce ==
    (fn # None) =>
        /\ Ended => Count("get_client") = 1
        /\ \A i \in Positions(SdkOps) : \E j \in Positions({"get_client"}) : j < i

\* C12 amended: the function calls get_client("compute") at most once, and
\* exactly once in every invocation except a create_or_update whose
\* resource-group lookup returned an error mapping, which returns False
\* without requesting a client; every SDK call of the function comes after
\* that call has returned.
C12_ClientOnceBeforeSdk ==
    (fn # None) =>
        /\ Count("get_client") <= 1
        /\ \A i \in Positions({"get_client"}) : calls[i].arg = "compute"
        /\ Ended =>
               (Count("get_client") = IF "error" \in DOMAIN rg_props THEN 0 ELSE 1)
        /\ \A i \in Positions(SdkOps) : \E j \in Positions({"get_client"}) : j < i
        /\ (Positions(SdkOps) # {}) => ~(pc = "raised" /\ exc.type \in GetClientRaises)

\* A power-off has requested its client once and then run its three calls.
C12_Witness ==
    /\ fn = "virtual_machine_power_off"
    /\ Returned
    /\ Count("get_client") = 1
    /\ Positions({"get_client"}) = {1}
    /\ Positions(SdkOps) = {2, 3, 4}

\* C13: availability_set_delete returns True exactly when the SDK delete
\* call raised nothing, and False, after logging the error once, exactly
\* when it raised HttpResponseError; it never returns a mapping.
C13_DeleteReturnsFlag ==
    (fn = "availability_set_delete" /\ Returned) =>
        /\ result.kind = "bool"
        /\ Count("availability_sets.delete") = 1
        /\ (result.val = TRUE) <=> (raised.type = None)
        /\ (result.val = FALSE) <=> IsInstance(raised.type, HttpResponseError)
        /\ CallsOf("log_cloud_error", fn) =
               IF raised.type = None
                 THEN <<>>
                 ELSE <<Call("log_cloud_error", <<"compute", raised.msg>>, fn)>>

\* delete has returned False after a ResourceNotFoundError, logged once.
C13_Witness ==
    /\ fn = "availability_set_delete"
    /\ Returned
    /\ raised.type = ResourceNotFoundError
    /\ IsBool(result, FALSE)
    /\ Count("log_cloud_error") = 1

\* C14: a listing result is all-or-nothing.  When the SDK raises
\* HttpResponseError while the paged sequence is fetched or flattened, also
\* after items were delivered, the function returns exactly
\* {"error": <message>}; a listing result with an "error" entry made by a
\* failure has no other entry, and a result with item entries comes from a
\* sequence that was fetched whole.
C14_ListingAllOrNothing ==
    (fn \in ListFns) =>
        /\ (paged.failed \/ raised.type # None) =>
               /\ paged.failed /\ raised.type # None
               /\ pc \in {"return", "returned"}
               /\ IsError(result, raised.msg)
               /\ items = <<>>
        /\ (result.kind = "dict" /\ DOMAIN result.val # {} /\ raised.type = None) =>
               /\ ~paged.failed
               /\ paged.fetched = Len(paged.objs)
               /\ DOMAIN result.val \subseteq
                      {paged.objs[i]["name"] : i \in 1..Len(paged.objs)}

\* A listing that failed after its first item was delivered has returned
\* the error mapping alone.
C14_Witness ==
    /\ fn = "virtual_machines_list"
    /\ Returned
    /\ paged.failed
    /\ paged.fetched = 1
    /\ Len(paged.objs) = 2
    /\ IsError(result, "bad request")

\* The position of the last item of the paged sequence named k.
LastNamed(k) ==
    CHOOSE i \in 1..Len(paged.objs) :
        /\ paged.objs[i]["name"] = k
        /\ \A j \in (i + 1)..Len(paged.objs) : paged.objs[j]["name"] # k

\* C15: when several listed items have the same name, the returned mapping
\* holds one entry for that name, whose value is the last such item in
\* sequence order; the entries are as many as the distinct names, so at most
\* as many as the items.
C15_LastItemWins ==
    (fn \in ListFns /\ Returned /\ raised.type = None) =>
        LET objs == paged.objs
            names == {objs[i]["name"] : i \in 1..Len(objs)}
        IN
        /\ DOMAIN result.val = names
        /\ \A k \in names :
               LET o == objs[LastNamed(k)] IN
               result.val[k] = [x \in {y \in ObjKeys : o[y] # None} |-> o[x]]
        /\ Cardinality(DOMAIN result.val) = Cardinality(names)
        /\ Cardinality(DOMAIN result.val) <= Len(objs)

\* Two items named "a" were listed; the one entry holds the second.
C15_Witness ==
    /\ fn = "virtual_machines_list_all"
    /\ Returned
    /\ raised.type = None
    /\ paged.objs = <<SdkObject("a", "eastus"), SdkObject("a", "westus")>>
    /\ DOMAIN result.val = {"a"}
    /\ result.val["a"]["location"] = "westus"

====
